---- MODULE Spec2Model ----
(***************************************************************************)
(* Model of the authentication backend in src/main.py: the users and       *)
(* user_sessions tables of the relational store, the request handlers of   *)
(* the HTTP routes, and the clock the handlers read with utcnow()/NOW().   *)
(*                                                                         *)
(* Time is counted in units of ten minutes, so timedelta(minutes=10) is 1  *)
(* and timedelta(hours=1) is 6.  The clock is observed at the instants     *)
(* around the two lifetimes (Instants).  Columns that no handler reads     *)
(* back (full_name, phone, created_at, updated_at, device_type and         *)
(* expires_at of a session) are not part of the rows, and the email claim   *)
(* of an access token, which no handler reads, is not part of the token.   *)
(*                                                                         *)
(* Spec runs the handlers one request at a time: each action is a whole    *)
(* handler.  SpecRace runs signup and reset_password split at their        *)
(* database statements (the SELECT, then the INSERT/UPDATE with its        *)
(* commit), because nothing in the code locks the row between the two; a   *)
(* worker holds the request between the two statements.  SpecVerify runs   *)
(* the handlers of the email_verification_token column in any number.      *)
(***************************************************************************)
EXTENDS Integers, Sequences, FiniteSets, TLC

\* ---------------------------------------------------------------- bounds
MaxTime == 7
MaxRequests == 3
MaxWorkers == 2
MaxSessions == 2

\* ------------------------------------------------------- program constants
RESET_EXPIRE == 6
OTP_EXPIRE == 1
ACCESS_TOKEN_EXPIRE == 144
SECRET_KEY == "SECRET_KEY"

\* ------------------------------------------------------------ input sets
Emails == {"a@x.com", "b@x.com"}
Passwords == {"pw1", "pw2"}
Salts == {"salt1"}
\* The values secrets.token_urlsafe(32) returns, in the order it returns them:
\* 256 random bits, so no value is returned twice.
TokenSeq == <<"tok1", "tok2", "tok3">>
Tokens == {TokenSeq[i] : i \in DOMAIN TokenSeq}
Otps == {"000000", "111111"}
Workers == 1..MaxWorkers
SessionTokens == 1..(MaxSessions + 1)

NULL == "NULL"
NULL_TS == -1

\* users     the users table: a sequence of rows, user_id is the index
\* sessions  the user_sessions table, in insertion order
\* now       the clock read by datetime.utcnow() and NOW()
\* pc        per worker, the request it holds between two statements
\* resp      the response of the last request that ended: status and detail,
\*           the user payload of its body, and what became of the email the
\*           request sent ("none" when it sent none)
\* uses      per presented value, how many requests it has been accepted by
\*           (reset_password, verify_email) since it was last issued
\* issued    per user, when forgot_password / send_otp last issued to the row
\* ntok      how many values token_urlsafe has returned
\* nreq      how many requests the server has accepted
VARIABLES users, sessions, now, pc, resp, uses, issued, ntok, nreq

vars == <<users, sessions, now, pc, resp, uses, issued, ntok, nreq>>

\* ------------------------------------------------------- password hashing
hash_password(password, salt) ==
    [salt |-> salt, digest |-> <<salt, password>>]

verify_password(plain_password, hashed_password) ==
    hash_password(plain_password, hashed_password.salt).digest
        = hashed_password.digest

\* ------------------------------------------------------------ the store
UserIds == DOMAIN users

SelectByEmail(email) == {u \in UserIds : users[u].email = email}

SelectByResetToken(token) ==
    {u \in UserIds : users[u].password_reset_token = token}

SelectByVerificationToken(token) ==
    {u \in UserIds : users[u].email_verification_token = token}

\* psycopg accepts the parameters of execute() only as a sequence or a
\* mapping; anything else raises TypeError before the statement is sent.
ExecuteAccepts(params) == params.kind \in {"tuple", "list", "dict"}

\* The users table declares email unique (data model of the store).
UniqueEmail == TRUE

Idle == [op |-> "idle", arg |-> NULL, user_id |-> 0]

NoPayload == [user_id |-> 0]

Response(op, arg, status, detail) ==
    [op |-> op, arg |-> arg, status |-> status, detail |-> detail,
     user |-> NoPayload, mail |-> "none"]

\* The columns a SELECT or RETURNING lists, read from a row.
Columns(user_id, row, columns) ==
    [c \in columns |-> IF c = "user_id" THEN user_id ELSE row[c]]

\* secrets.token_urlsafe(32): the next value of TokenSeq.
token_urlsafe == TokenSeq[ntok + 1]

FreshSessionToken ==
    CHOOSE t \in SessionTokens :
        /\ \A i \in DOMAIN sessions : sessions[i].session_token # t
        /\ \A s \in SessionTokens :
              (\A i \in DOMAIN sessions : sessions[i].session_token # s)
                 => t <= s

generate_otp == Otps

InsertSession_replacing(user_id) ==
    Append(SelectSeq(sessions, LAMBDA s : s.user_id # user_id),
           [user_id |-> user_id, session_token |-> FreshSessionToken])

InsertSession(user_id) ==
    Append(sessions, [user_id |-> user_id, session_token |-> FreshSessionToken])

NoIssue == [reset_at |-> NULL_TS, otp_at |-> NULL_TS]

\* ------------------------------------------------------------ email_service
send_email_raises(delivered) == IF delivered THEN "sent" ELSE "raised"

\* EmailService.send_email: True when the provider took the message; any
\* exception of the provider is caught and turned into False.
send_email(delivered) == IF delivered THEN "sent" ELSE "failed"

\* ------------------------------------------------------------ access tokens
\* jwt.encode of {user_id, email, exp} under SECRET_KEY, issued at utcnow.
create_access_token(user_id, utcnow) ==
    [wellformed |-> TRUE, key |-> SECRET_KEY, user_id |-> user_id,
     exp |-> utcnow + ACCESS_TOKEN_EXPIRE]

NoToken == [wellformed |-> FALSE, key |-> NULL, user_id |-> 0, exp |-> 0]

\* The Authorization headers a client presents: none, another scheme, and
\* Bearer with a string that is no token, with a token signed under another
\* key, with a token of user 1 issued ten minutes less than a day before the
\* run began, and with tokens of users 1 and 2 issued as the run begins.
Headers ==
    { [label |-> "none", present |-> FALSE, scheme |-> NULL, token |-> NoToken],
      [label |-> "Basic", present |-> TRUE, scheme |-> "Basic", token |-> NoToken],
      [label |-> "Bearer garbage", present |-> TRUE, scheme |-> "Bearer",
       token |-> NoToken],
      [label |-> "Bearer forged", present |-> TRUE, scheme |-> "Bearer",
       token |-> [create_access_token(1, 0) EXCEPT !.key = "another key"]],
      [label |-> "Bearer old:1", present |-> TRUE, scheme |-> "Bearer",
       token |-> create_access_token(1, 1 - ACCESS_TOKEN_EXPIRE)],
      [label |-> "Bearer jwt:1", present |-> TRUE, scheme |-> "Bearer",
       token |-> create_access_token(1, 0)],
      [label |-> "Bearer jwt:2", present |-> TRUE, scheme |-> "Bearer",
       token |-> create_access_token(2, 0)] }

\* The names the jwt module (PyJWT) defines.
jwt_names ==
    {"encode", "decode", "PyJWTError", "InvalidTokenError", "DecodeError",
     "InvalidSignatureError", "ExpiredSignatureError"}

\* jwt.decode(token, SECRET_KEY, algorithms=[ALGORITHM]): the signature is
\* checked before the exp claim.
jwt_decode(token) ==
    IF ~token.wellformed THEN "DecodeError"
    ELSE IF token.key # SECRET_KEY THEN "InvalidSignatureError"
    ELSE IF token.exp <= now THEN "ExpiredSignatureError"
    ELSE "payload"

\* verify_token: the second except clause names jwt.JWTError, which is looked
\* up when an exception other than ExpiredSignatureError arrives; a name the
\* module lacks raises AttributeError, which surfaces as 500.
verify_token(token) ==
    LET r == jwt_decode(token) IN
    IF r = "payload" THEN <<200, "">>
    ELSE IF r = "ExpiredSignatureError" THEN <<401, "Token has expired">>
    ELSE IF "JWTError" \in jwt_names THEN <<401, "Invalid token">>
    ELSE <<500, "Internal Server Error">>

\* The check of the header and of its token that opens get_current_user and
\* logout.
authenticate(authorization) ==
    IF ~authorization.present \/ authorization.scheme # "Bearer"
      THEN <<401, "Not authenticated">>
      ELSE verify_token(authorization.token)

\* ------------------------------------------------------------------ Init
InitialUser(active) ==
    [email |-> "a@x.com",
     password_hash |-> hash_password("pw1", "salt1"),
     is_active |-> active,
     is_verified |-> FALSE,
     email_verification_token |-> NULL,
     password_reset_token |-> NULL,
     password_reset_expires |-> NULL_TS,
     last_login |-> NULL_TS]

Init ==
    /\ \/ /\ users = <<>>
          /\ issued = <<>>
       \/ /\ \E active \in BOOLEAN : users = <<InitialUser(active)>>
          /\ issued = <<NoIssue>>
    /\ sessions = <<>>
    /\ now = 0
    /\ pc = [w \in Workers |-> Idle]
    /\ resp = Response("none", NULL, 0, "")
    /\ uses = [t \in Tokens \cup Otps |-> 0]
    /\ ntok = 0
    /\ nreq = 0

\* ----------------------------------------------------------------- clock
Instants == {t \in 0..MaxTime : t <= OTP_EXPIRE + 1 \/ t >= RESET_EXPIRE}

Tick ==
    /\ now < MaxTime
    /\ now' = CHOOSE t \in Instants : t > now /\ \A s \in Instants : s > now => t <= s
    /\ UNCHANGED <<users, sessions, pc, resp, uses, issued, ntok, nreq>>

\* ---------------------------------------------------------------- signup
\* RETURNING user_id, email, full_name, phone, is_verified, created_at
SIGNUP_RETURNING == {"user_id", "email", "is_verified"}

NewUser(email, password_hash, verification_token) ==
    [email |-> email,
     password_hash |-> password_hash,
     is_active |-> TRUE,
     is_verified |-> FALSE,
     email_verification_token |-> verification_token,
     password_reset_token |-> NULL,
     password_reset_expires |-> NULL_TS,
     last_login |-> NULL_TS]

\* INSERT INTO users ... ; commit; INSERT INTO user_sessions ... ; commit.
\* A duplicate email makes the INSERT raise, which the handler turns into 500.
signup_write(email, password) ==
    IF UniqueEmail /\ SelectByEmail(email) # {}
      THEN /\ resp' = Response("signup", email, 500, "Signup failed")
           /\ UNCHANGED <<users, sessions, issued, ntok>>
      ELSE /\ Len(sessions) < MaxSessions
           /\ ntok < Len(TokenSeq)
           /\ \E salt \in Salts :
                 users' = Append(users,
                             NewUser(email, hash_password(password, salt),
                                     token_urlsafe))
           /\ ntok' = ntok + 1
           /\ issued' = Append(issued, NoIssue)
           /\ \E delivered \in BOOLEAN :
                 LET mail == send_email(delivered) IN
                 IF mail = "raised"
                   THEN /\ resp' = [Response("signup", email, 500, "Signup failed")
                                       EXCEPT !.mail = mail]
                        /\ UNCHANGED sessions
                   ELSE /\ sessions' = InsertSession(Len(users) + 1)
                        /\ resp' = [Response("signup", email, 200, "") EXCEPT
                                      !.user = Columns(Len(users) + 1,
                                                  NewUser(email, NULL, NULL),
                                                  SIGNUP_RETURNING),
                                      !.mail = mail]

signup(email, password) ==
    /\ IF SelectByEmail(email) # {}
         THEN /\ resp' = Response("signup", email, 400, "Email already registered")
              /\ UNCHANGED <<users, sessions, issued, ntok>>
         ELSE signup_write(email, password)
    /\ UNCHANGED <<now, pc, uses>>

signup_select(w, email) ==
    /\ pc[w] = Idle
    /\ IF SelectByEmail(email) # {}
         THEN /\ resp' = Response("signup", email, 400, "Email already registered")
              /\ UNCHANGED pc
         ELSE /\ pc' = [pc EXCEPT ![w] = [op |-> "signup", arg |-> email,
                                          user_id |-> 0]]
              /\ UNCHANGED resp
    /\ UNCHANGED <<users, sessions, now, uses, issued, ntok>>

signup_insert(w, password) ==
    /\ pc[w].op = "signup"
    /\ pc' = [pc EXCEPT ![w] = Idle]
    /\ signup_write(pc[w].arg, password)
    /\ UNCHANGED <<now, uses>>

\* ----------------------------------------------------------------- login
login_check_leaks_unknown_email(email, password) ==
    IF SelectByEmail(email) = {}
      THEN <<404, "User not found">>
      ELSE LET user == users[CHOOSE u \in SelectByEmail(email) : TRUE] IN
           IF ~verify_password(password, user.password_hash)
             THEN <<401, "Invalid email or password">>
             ELSE IF ~user.is_active
                    THEN <<403, "Account is deactivated">>
                    ELSE <<200, "">>

login_check_ignores_is_active(email, password) ==
    IF SelectByEmail(email) = {}
      THEN <<401, "Invalid email or password">>
      ELSE LET user == users[CHOOSE u \in SelectByEmail(email) : TRUE] IN
           IF ~verify_password(password, user.password_hash)
             THEN <<401, "Invalid email or password">>
             ELSE <<200, "">>

login_check(email, password) ==
    IF SelectByEmail(email) = {}
      THEN <<401, "Invalid email or password">>
      ELSE LET user == users[CHOOSE u \in SelectByEmail(email) : TRUE] IN
           IF ~verify_password(password, user.password_hash)
             THEN <<401, "Invalid email or password">>
             ELSE IF ~user.is_active
                    THEN <<403, "Account is deactivated">>
                    ELSE <<200, "">>

\* SELECT user_id, email, password_hash, full_name, phone, is_active,
\*        is_verified, created_at, last_login
LOGIN_SELECT ==
    {"user_id", "email", "password_hash", "is_active", "is_verified", "last_login"}

login_user_response_whole_row(user) == user

\* The body's user: the selected row without password_hash, then field by
\* field.
login_user_response(user) ==
    LET user_data == [k \in DOMAIN user \ {"password_hash"} |-> user[k]] IN
    [k \in {"user_id", "email", "is_verified", "last_login"} |-> user_data[k]]

login(email, password) ==
    /\ LET r == login_check(email, password) IN
       IF r[1] # 200
         THEN /\ resp' = Response("login", email, r[1], r[2])
              /\ UNCHANGED <<users, sessions>>
         ELSE /\ Len(sessions) < MaxSessions
              /\ \E u \in SelectByEmail(email) :
                    /\ users' = [users EXCEPT ![u].last_login = now]
                    /\ sessions' = InsertSession(u)
                    /\ resp' = [Response("login", email, 200, "") EXCEPT
                                  !.user = login_user_response(
                                              Columns(u, users[u], LOGIN_SELECT))]
    /\ UNCHANGED <<now, pc, uses, issued, ntok>>

\* ------------------------------------------------------- forgot_password
\* The message of the 200 response, by whether the SELECT found the email.
forgot_password_message(found) ==
    IF found
      THEN "Password reset link sent to your email"
      ELSE "If email exists, password reset link has been sent"

forgot_password_row_keeps_outstanding(user, reset_token, reset_expires) ==
    IF user.password_reset_token # NULL
      THEN [user EXCEPT !.password_reset_expires = reset_expires]
      ELSE [user EXCEPT !.password_reset_token = reset_token,
                        !.password_reset_expires = reset_expires]

\* UPDATE users SET password_reset_token = %s, password_reset_expires = %s
forgot_password_row(user, reset_token, reset_expires) ==
    [user EXCEPT !.password_reset_token = reset_token,
                 !.password_reset_expires = reset_expires]

forgot_password(email) ==
    /\ IF SelectByEmail(email) = {}
         THEN /\ resp' = Response("forgot_password", email, 200,
                                  forgot_password_message(FALSE))
              /\ UNCHANGED <<users, issued, ntok>>
         ELSE \E u \in SelectByEmail(email) :
                 /\ ntok < Len(TokenSeq)
                 /\ users' = [users EXCEPT ![u] =
                                forgot_password_row(@, token_urlsafe,
                                                    now + RESET_EXPIRE)]
                 /\ ntok' = ntok + 1
                 /\ issued' = [issued EXCEPT ![u].reset_at = now]
                 /\ \E delivered \in BOOLEAN :
                       LET mail == send_email(delivered) IN
                       resp' = [(IF mail = "raised"
                                   THEN Response("forgot_password", email, 500,
                                                 "Internal Server Error")
                                   ELSE Response("forgot_password", email, 200,
                                                 forgot_password_message(TRUE)))
                                  EXCEPT !.mail = mail]
    /\ UNCHANGED <<sessions, now, pc, uses>>

\* -------------------------------------------------------- reset_password
\* The SELECT by token and the two checks that follow it.  Comparing a NULL
\* expiry (None) with utcnow() raises TypeError, which surfaces as 500.
reset_password_check(token) ==
    IF SelectByResetToken(token) = {}
      THEN <<400, "Invalid reset token">>
      ELSE LET user == users[CHOOSE u \in SelectByResetToken(token) : TRUE] IN
           IF user.password_reset_expires = NULL_TS
             THEN <<500, "Internal Server Error">>
             ELSE IF user.password_reset_expires < now
                    THEN <<400, "Reset token has expired">>
                    ELSE <<200, "Password reset successful">>

reset_password_row_keeps_password(user, new_password_hash) ==
    [user EXCEPT !.password_reset_token = NULL,
                 !.password_reset_expires = NULL_TS]

reset_password_row_keeps_token(user, new_password_hash) ==
    [user EXCEPT !.password_hash = new_password_hash]

reset_password_row(user, new_password_hash) ==
    [user EXCEPT !.password_hash = new_password_hash,
                 !.password_reset_token = NULL,
                 !.password_reset_expires = NULL_TS]

\* UPDATE users SET ... WHERE user_id = %s; commit.
reset_password_write(token, user_id, new_password) ==
    /\ \E salt \in Salts :
          users' = [users EXCEPT ![user_id] =
                      reset_password_row(@, hash_password(new_password, salt))]
    /\ uses' = [uses EXCEPT ![token] = @ + 1]
    /\ resp' = Response("reset_password", token, 200, "Password reset successful")

reset_password(token, new_password) ==
    /\ LET r == reset_password_check(token) IN
       IF r[1] # 200
         THEN /\ resp' = Response("reset_password", token, r[1], r[2])
              /\ UNCHANGED <<users, uses>>
         ELSE \E u \in SelectByResetToken(token) :
                 reset_password_write(token, u, new_password)
    /\ UNCHANGED <<sessions, now, pc, issued, ntok>>

reset_password_select(w, token) ==
    /\ pc[w] = Idle
    /\ LET r == reset_password_check(token) IN
       IF r[1] # 200
         THEN /\ resp' = Response("reset_password", token, r[1], r[2])
              /\ UNCHANGED pc
         ELSE \E u \in SelectByResetToken(token) :
                 /\ pc' = [pc EXCEPT ![w] = [op |-> "reset_password",
                                             arg |-> token, user_id |-> u]]
                 /\ UNCHANGED resp
    /\ UNCHANGED <<users, sessions, now, uses, issued, ntok>>

reset_password_update(w, new_password) ==
    /\ pc[w].op = "reset_password"
    /\ reset_password_write(pc[w].arg, pc[w].user_id, new_password)
    /\ pc' = [pc EXCEPT ![w] = Idle]
    /\ UNCHANGED <<sessions, now, issued, ntok>>

\* ---------------------------------------------------------- verify_email
verify_email_row(user) ==
    [user EXCEPT !.is_verified = TRUE, !.email_verification_token = NULL]

verify_email(token) ==
    /\ IF SelectByVerificationToken(token) = {}
         THEN /\ resp' = Response("verify_email", token, 400,
                                  "Invalid or expired verification token")
              /\ UNCHANGED <<users, uses>>
         ELSE \E u \in SelectByVerificationToken(token) :
                 /\ users' = [users EXCEPT ![u] = verify_email_row(@)]
                 /\ uses' = [uses EXCEPT ![token] = @ + 1]
                 /\ resp' = Response("verify_email", token, 200,
                                     "Email verified successfully!")
    /\ UNCHANGED <<sessions, now, pc, issued, ntok>>

\* --------------------------------------------------- resend_verification
resend_verification_ignores_is_verified(email) ==
    /\ IF SelectByEmail(email) = {}
         THEN /\ resp' = Response("resend_verification", email, 404, "User not found")
              /\ UNCHANGED <<users, ntok>>
         ELSE \E u \in SelectByEmail(email) :
                 /\ ntok < Len(TokenSeq)
                 /\ users' = [users EXCEPT
                       ![u].email_verification_token = token_urlsafe]
                 /\ ntok' = ntok + 1
                 /\ \E delivered \in BOOLEAN :
                       resp' = [Response("resend_verification", email, 200,
                                         "Verification email sent successfully")
                                  EXCEPT !.mail = send_email(delivered)]
    /\ UNCHANGED <<sessions, now, pc, uses, issued>>

resend_verification(email) ==
    /\ IF SelectByEmail(email) = {}
         THEN /\ resp' = Response("resend_verification", email, 404, "User not found")
              /\ UNCHANGED <<users, ntok>>
         ELSE \E u \in SelectByEmail(email) :
                 IF users[u].is_verified
                   THEN /\ resp' = Response("resend_verification", email, 200,
                                            "Email already verified")
                        /\ UNCHANGED <<users, ntok>>
                   ELSE /\ ntok < Len(TokenSeq)
                        /\ users' = [users EXCEPT
                              ![u].email_verification_token = token_urlsafe]
                        /\ ntok' = ntok + 1
                        /\ \E delivered \in BOOLEAN :
                              LET mail == send_email(delivered) IN
                              resp' = [(IF mail = "raised"
                                          THEN Response("resend_verification",
                                                        email, 500,
                                                        "Internal Server Error")
                                          ELSE Response("resend_verification",
                                                        email, 200,
                                                        "Verification email sent successfully"))
                                         EXCEPT !.mail = mail]
    /\ UNCHANGED <<sessions, now, pc, uses, issued>>

\* -------------------------------------------------------------- send_otp
send_otp_row_unverifies(user, otp, otp_expires) ==
    [user EXCEPT !.email_verification_token = otp,
                 !.password_reset_expires = otp_expires,
                 !.is_verified = FALSE]

send_otp_row(user, otp, otp_expires) ==
    [user EXCEPT !.email_verification_token = otp,
                 !.password_reset_expires = otp_expires]

send_otp(email) ==
    /\ IF SelectByEmail(email) = {}
         THEN /\ resp' = Response("send_otp", email, 404, "User not found")
              /\ UNCHANGED <<users, issued, uses>>
         ELSE \E u \in SelectByEmail(email), otp \in generate_otp :
                 /\ users' = [users EXCEPT ![u] = send_otp_row(@, otp, now + OTP_EXPIRE)]
                 /\ issued' = [issued EXCEPT ![u].otp_at = now]
                 /\ uses' = [uses EXCEPT ![otp] = 0]
                 /\ \E delivered \in BOOLEAN :
                       LET mail == send_email(delivered) IN
                       resp' = [(IF mail = "raised"
                                   THEN Response("send_otp", email, 500,
                                                 "Internal Server Error")
                                   ELSE Response("send_otp", email, 200,
                                                 "OTP sent successfully to your email"))
                                  EXCEPT !.mail = mail]
    /\ UNCHANGED <<sessions, now, pc, ntok>>

\* ------------------------------------------------------------ verify_otp
verify_otp_update_params_as_tuple(user_id) == [kind |-> "tuple", value |-> user_id]

\* The parameters of the UPDATE are written (user['user_id']): a bare value,
\* not a one-element tuple.
verify_otp_update_params(user_id) == [kind |-> "scalar", value |-> user_id]

verify_otp_row(user) ==
    [user EXCEPT !.email_verification_token = NULL,
                 !.password_reset_expires = NULL_TS,
                 !.is_verified = TRUE]

verify_otp_check_without_expiry(user, otp) ==
    IF user.email_verification_token # otp
      THEN <<400, "Invalid OTP">>
      ELSE <<200, "OTP verified successfully">>

\* The checks after the SELECT.  A matching code with a NULL expiry makes the
\* comparison with utcnow() raise TypeError, which surfaces as 500.
verify_otp_check(user, otp) ==
    IF user.email_verification_token # otp
      THEN <<400, "Invalid OTP">>
      ELSE IF user.password_reset_expires = NULL_TS
             THEN <<500, "Internal Server Error">>
             ELSE IF user.password_reset_expires < now
                    THEN <<400, "OTP has expired">>
                    ELSE <<200, "OTP verified successfully">>

verify_otp(email, otp) ==
    /\ IF SelectByEmail(email) = {}
         THEN /\ resp' = Response("verify_otp", email, 404, "User not found")
              /\ UNCHANGED users
         ELSE \E u \in SelectByEmail(email) :
                 LET r == verify_otp_check(users[u], otp) IN
                 IF r[1] # 200
                   THEN /\ resp' = Response("verify_otp", email, r[1], r[2])
                        /\ UNCHANGED users
                   ELSE IF ExecuteAccepts(verify_otp_update_params(u))
                          THEN /\ users' = [users EXCEPT ![u] = verify_otp_row(@)]
                               /\ resp' = Response("verify_otp", email, r[1], r[2])
                          ELSE /\ resp' = Response("verify_otp", email, 500,
                                                   "Internal Server Error")
                               /\ UNCHANGED users
    /\ UNCHANGED <<sessions, now, pc, uses, issued, ntok>>

\* ------------------------------------------------------ get_current_user
\* SELECT user_id, email, full_name, phone, is_verified, created_at, last_login
ME_SELECT == {"user_id", "email", "is_verified", "last_login"}

get_current_user_requires_session(authorization) ==
    /\ LET r == authenticate(authorization)
           user_id == authorization.token.user_id IN
       IF r[1] # 200
         THEN resp' = Response("get_current_user", authorization.label, r[1], r[2])
         ELSE IF /\ user_id \in UserIds /\ users[user_id].is_active
                 /\ \E i \in DOMAIN sessions : sessions[i].user_id = user_id
                THEN resp' = [Response("get_current_user", authorization.label,
                                       200, "")
                                EXCEPT !.user = Columns(user_id, users[user_id],
                                                        ME_SELECT)]
                ELSE resp' = Response("get_current_user", authorization.label,
                                      404, "User not found")
    /\ UNCHANGED <<users, sessions, now, pc, uses, issued, ntok>>

get_current_user(authorization) ==
    /\ LET r == authenticate(authorization)
           user_id == authorization.token.user_id IN
       IF r[1] # 200
         THEN resp' = Response("get_current_user", authorization.label, r[1], r[2])
         ELSE IF user_id \in UserIds /\ users[user_id].is_active
                THEN resp' = [Response("get_current_user", authorization.label,
                                       200, "")
                                EXCEPT !.user = Columns(user_id, users[user_id],
                                                        ME_SELECT)]
                ELSE resp' = Response("get_current_user", authorization.label,
                                      404, "User not found")
    /\ UNCHANGED <<users, sessions, now, pc, uses, issued, ntok>>

\* ---------------------------------------------------------------- logout
delete_every_session(user_id) == <<>>

\* DELETE FROM user_sessions WHERE user_id = %s
delete_sessions(user_id) ==
    SelectSeq(sessions, LAMBDA s : s.user_id # user_id)

logout_deletes_before_check(authorization) ==
    /\ LET r == authenticate(authorization) IN
       /\ sessions' = delete_sessions(authorization.token.user_id)
       /\ resp' = IF r[1] # 200
                    THEN Response("logout", authorization.label, r[1], r[2])
                    ELSE Response("logout", authorization.label, 200,
                                  "Logged out successfully")
    /\ UNCHANGED <<users, now, pc, uses, issued, ntok>>

logout(authorization) ==
    /\ LET r == authenticate(authorization) IN
       IF r[1] # 200
         THEN /\ resp' = Response("logout", authorization.label, r[1], r[2])
              /\ UNCHANGED sessions
         ELSE /\ sessions' = delete_sessions(authorization.token.user_id)
              /\ resp' = Response("logout", authorization.label, 200,
                                  "Logged out successfully")
    /\ UNCHANGED <<users, now, pc, uses, issued, ntok>>

\* ------------------------------------------------------------------ Next
Presented == Tokens \cup Otps

\* The server accepts a new request (at most MaxRequests of them in a run).
Accept == nreq < MaxRequests /\ nreq' = nreq + 1

Next ==
    \/ Tick
    \/ \E email \in Emails, password \in Passwords :
          Accept /\ signup(email, password)
    \/ \E email \in Emails, password \in Passwords :
          Accept /\ login(email, password)
    \/ \E email \in Emails : Accept /\ forgot_password(email)
    \/ \E token \in Presented, new_password \in Passwords :
          Accept /\ reset_password(token, new_password)
    \/ \E token \in Presented : Accept /\ verify_email(token)
    \/ \E email \in Emails : Accept /\ resend_verification(email)
    \/ \E email \in Emails : Accept /\ send_otp(email)
    \/ \E email \in Emails, otp \in Presented : Accept /\ verify_otp(email, otp)
    \/ \E authorization \in Headers : Accept /\ get_current_user(authorization)
    \/ \E authorization \in Headers : Accept /\ logout(authorization)

Spec == Init /\ [][Next]_vars

\* Requests in progress at the same time: the first idle worker takes a request.
FirstIdle(w) == pc[w] = Idle /\ \A v \in Workers : v < w => pc[v] # Idle

NextRace ==
    \/ Tick
    \/ \E w \in Workers, email \in Emails :
          Accept /\ FirstIdle(w) /\ signup_select(w, email)
    \/ \E w \in Workers, password \in Passwords :
          signup_insert(w, password) /\ UNCHANGED nreq
    \/ \E email \in Emails, password \in Passwords :
          Accept /\ login(email, password)
    \/ \E email \in Emails : Accept /\ forgot_password(email)
    \/ \E w \in Workers, token \in Presented :
          Accept /\ FirstIdle(w) /\ reset_password_select(w, token)
    \/ \E w \in Workers, new_password \in Passwords :
          reset_password_update(w, new_password) /\ UNCHANGED nreq
    \/ \E token \in Presented : Accept /\ verify_email(token)
    \/ \E email \in Emails : Accept /\ resend_verification(email)
    \/ \E email \in Emails : Accept /\ send_otp(email)
    \/ \E email \in Emails, otp \in Presented : Accept /\ verify_otp(email, otp)
    \/ \E authorization \in Headers : Accept /\ get_current_user(authorization)
    \/ \E authorization \in Headers : Accept /\ logout(authorization)

SpecRace == Init /\ [][NextRace]_vars

\* The requests that write or read the email_verification_token column, in
\* any number and within one instant of the clock (verify_email reads no
\* clock): signup, resend_verification, send_otp, verify_email.
NextVerify ==
    \/ \E email \in Emails, password \in Passwords :
          signup(email, password) /\ UNCHANGED nreq
    \/ \E email \in Emails : resend_verification(email) /\ UNCHANGED nreq
    \/ \E email \in Emails : send_otp(email) /\ UNCHANGED nreq
    \/ \E token \in Presented : verify_email(token) /\ UNCHANGED nreq

SpecVerify == Init /\ [][NextVerify]_vars

\* ================================================================ claims

\* C1: when two reset_password requests presenting the same valid token run
\* concurrently, at most one of them succeeds, so an issued token changes the
\* password at most once.
C1_TokenResetsAtMostOnce == \A t \in Tokens : uses[t] <= 1

\* C2: once a reset_password presenting token t has succeeded, every later
\* reset_password presenting t is answered 400 'Invalid reset token'
\* (forgot_password never issues the value t again: token_urlsafe).
C2_SpentTokenIsInvalid ==
    [][\A t \in Tokens, p \in Passwords :
          (/\ resp'.op = "reset_password" /\ resp'.arg = t
           /\ uses[t] >= 1
           /\ reset_password(t, p))
             => resp' = Response("reset_password", t, 400, "Invalid reset token")]_vars

C2_Witness ==
    /\ resp = Response("reset_password", resp.arg, 400, "Invalid reset token")
    /\ resp.arg \in Tokens
    /\ uses[resp.arg] >= 1

\* C3: a reset token that forgot_password issued at time t and that is still
\* stored is answered 400 'Reset token has expired' by every reset_password
\* made later than t + 1 hour.
C3_ResetTokenExpiresAfterOneHour ==
    [][\A t \in Tokens, p \in Passwords : \A u \in UserIds :
          (/\ users[u].password_reset_token = t
           /\ issued[u].reset_at # NULL_TS
           /\ now > issued[u].reset_at + RESET_EXPIRE
           /\ reset_password(t, p))
             => resp' = Response("reset_password", t, 400, "Reset token has expired")]_vars

\* C4: a request that presents, later than t + 10 minutes, the OTP that send_otp
\* stored for a user at time t (to verify_otp or to verify_email) does not make
\* that user's is_verified true.
C4_LateOtpNeverVerifies ==
    [][\A o \in Otps : \A u \in UserIds :
          (/\ users[u].email_verification_token = o
           /\ ~users[u].is_verified
           /\ issued[u].otp_at # NULL_TS
           /\ now > issued[u].otp_at + OTP_EXPIRE
           /\ (verify_email(o) \/ \E e \in Emails : verify_otp(e, o)))
             => ~users'[u].is_verified]_vars

\* C5: verify_otp(email, otp) for a user whose stored code equals otp and whose
\* stored expiry has not passed answers 200 and leaves the user verified with
\* both OTP fields cleared.
C5_VerifyOtpSucceeds ==
    [][\A e \in Emails, o \in Presented : \A u \in SelectByEmail(e) :
          (/\ users[u].email_verification_token = o
           /\ users[u].password_reset_expires # NULL_TS
           /\ users[u].password_reset_expires >= now
           /\ verify_otp(e, o))
             => /\ resp'.status = 200
                /\ users'[u].is_verified
                /\ users'[u].email_verification_token = NULL
                /\ users'[u].password_reset_expires = NULL_TS]_vars

C7_ForgotPasswordSameResponse ==
    resp.op = "forgot_password"
       => /\ resp.status = 200
          /\ resp.detail = forgot_password_message(FALSE)

\* C8: login with a registered email and a wrong password, and login with an
\* email no user holds, are both answered 401 'Invalid email or password', and
\* neither changes the users table (last_login) nor the sessions table.
C8_LoginFailuresIndistinguishable ==
    [][\A e \in Emails, p \in Passwords :
          (/\ resp'.op = "login" /\ resp'.arg = e
           /\ login(e, p)
           /\ \/ SelectByEmail(e) = {}
              \/ \E u \in SelectByEmail(e) :
                    ~verify_password(p, users[u].password_hash))
             => /\ resp' = Response("login", e, 401, "Invalid email or password")
                /\ UNCHANGED <<users, sessions>>]_vars

C8_Witness ==
    /\ resp.op = "login"
    /\ resp.status = 401
    /\ \E u \in SelectByEmail(resp.arg) : users[u].last_login = NULL_TS

\* C9 as stated: every login for an existing user whose is_active is false is
\* answered 403, whatever password is supplied, and changes neither last_login
\* nor the sessions.
C9_InactiveAlwaysForbidden ==
    [][\A e \in Emails, p \in Passwords : \A u \in SelectByEmail(e) :
          (~users[u].is_active /\ login(e, p))
             => /\ resp'.status = 403
                /\ UNCHANGED <<users, sessions>>]_vars

\* C9 amended: every login for an existing user whose is_active is false fails,
\* with 403 'Account is deactivated' when the password is the user's and with
\* 401 'Invalid email or password' when it is not, and changes neither
\* last_login nor the sessions.
C9_InactiveLoginFails ==
    [][\A e \in Emails, p \in Passwords : \A u \in SelectByEmail(e) :
          (/\ resp'.op = "login" /\ resp'.arg = e
           /\ ~users[u].is_active
           /\ login(e, p))
             => /\ resp' = IF verify_password(p, users[u].password_hash)
                             THEN Response("login", e, 403, "Account is deactivated")
                             ELSE Response("login", e, 401, "Invalid email or password")
                /\ UNCHANGED <<users, sessions>>]_vars

C9_Witness ==
    /\ resp.op = "login"
    /\ resp.status = 403
    /\ \E u \in SelectByEmail(resp.arg) : ~users[u].is_active

\* C10: when two signup requests for the same email interleave, one creates the
\* row and the other is answered 400 'Email already registered': no signup ends
\* in an internal error and no two rows hold the same email.
C10_SignupRaceEndsInConflict ==
    /\ resp.op = "signup" => resp.status \in {200, 400}
    /\ \A u, v \in UserIds : users[u].email = users[v].email => u = v

\* C11: verify_email(T) with a value held by some user makes that user
\* verified and clears the value from the row, and every later verify_email(T)
\* is refused with 400 unless the value has been issued again in between.
C11_VerifyEmailConsumesToken ==
    [][\A t \in Presented :
          verify_email(t) =>
             /\ SelectByVerificationToken(t) # {} =>
                   /\ resp'.status = 200
                   /\ \E u \in SelectByVerificationToken(t) :
                         /\ users'[u].is_verified
                         /\ users'[u].email_verification_token = NULL
             /\ uses[t] >= 1 =>
                   resp' = Response("verify_email", t, 400,
                                    "Invalid or expired verification token")]_vars

\* C12: is_verified of a row only ever goes from false to true, and only in
\* a verify_email or verify_otp request that answers 200; no request sets it
\* back to false.
C12_IsVerifiedOneWay ==
    [][\A u \in UserIds :
          /\ u \in DOMAIN users'
          /\ users[u].is_verified => users'[u].is_verified
          /\ (~users[u].is_verified /\ users'[u].is_verified) =>
                /\ resp'.op \in {"verify_email", "verify_otp"}
                /\ resp'.status = 200]_vars

\* A verified row has been through a later send_otp for the same user.
C12_Witness ==
    \E u \in UserIds :
       /\ users[u].is_verified
       /\ resp.op = "send_otp" /\ resp.status = 200
       /\ resp.arg = users[u].email

\* C13: after a logout that answers 200 for a valid token of user u, no
\* session row of u that existed before remains, the session rows of every
\* other user are the ones that were there before, and no row is added.
C13_LogoutDeletesOwnSessions ==
    [][\A authorization \in Headers :
          (resp'.op = "logout" /\ resp'.status = 200 /\ logout(authorization)) =>
             LET u == authorization.token.user_id IN
             /\ \A j \in DOMAIN sessions' : sessions'[j].user_id # u
             /\ \A i \in DOMAIN sessions :
                   sessions[i].user_id # u =>
                      \E j \in DOMAIN sessions' : sessions'[j] = sessions[i]
             /\ \A j \in DOMAIN sessions' :
                   \E i \in DOMAIN sessions : sessions[i] = sessions'[j]]_vars

\* A logout of user 1 has removed the first session row (token 1) and left
\* the row of another user that was inserted after it.
C13_Witness ==
    /\ resp.op = "logout" /\ resp.status = 200
    /\ resp.arg = "Bearer jwt:1"
    /\ Len(sessions) = 1
    /\ sessions[1].user_id # 1
    /\ sessions[1].session_token = 2

\* C14: get_current_user answers 401 when the Authorization header is
\* missing or not of the Bearer scheme, when the token has expired, and when
\* the token has a bad signature or is malformed; it answers 404 when the
\* token is valid and its user does not exist or is not active; it never ends
\* in an internal error.
C14_GetCurrentUserErrors ==
    [][\A authorization \in Headers :
          (resp'.op = "get_current_user" /\ get_current_user(authorization)) =>
             LET token == authorization.token IN
             resp'.status =
                IF ~authorization.present \/ authorization.scheme # "Bearer"
                  THEN 401
                ELSE IF ~token.wellformed \/ token.key # SECRET_KEY THEN 401
                ELSE IF token.exp <= now THEN 401
                ELSE IF \/ token.user_id \notin UserIds
                        \/ ~users[token.user_id].is_active
                       THEN 404
                ELSE 200]_vars

\* C15: in signup, forgot_password, resend_verification and send_otp, a
\* request that sent an email answers 200 and leaves its state change stored,
\* the same whether the email was delivered or the delivery failed.
C15_EmailFailureDoesNotFailRequest ==
    [][(nreq' # nreq /\ resp'.mail # "none") =>
          /\ resp'.op \in {"signup", "forgot_password", "resend_verification",
                           "send_otp"}
          /\ resp'.status = 200
          /\ resp'.op = "signup" =>
                /\ Len(users') = Len(users) + 1
                /\ users'[Len(users')].email = resp'.arg
                /\ users'[Len(users')].email_verification_token = token_urlsafe
                /\ Len(sessions') = Len(sessions) + 1
                /\ sessions'[Len(sessions')].user_id = Len(users')
          /\ resp'.op = "forgot_password" =>
                /\ resp'.detail = forgot_password_message(TRUE)
                /\ \E u \in SelectByEmail(resp'.arg) :
                      /\ users'[u].password_reset_token = token_urlsafe
                      /\ users'[u].password_reset_expires = now + RESET_EXPIRE
          /\ resp'.op = "resend_verification" =>
                \E u \in SelectByEmail(resp'.arg) :
                   users'[u].email_verification_token = token_urlsafe
          /\ resp'.op = "send_otp" =>
                \E u \in SelectByEmail(resp'.arg) :
                   /\ users'[u].email_verification_token \in Otps
                   /\ users'[u].password_reset_expires = now + OTP_EXPIRE]_vars

\* A signup whose verification email was not delivered has answered 200 and
\* its user row and session row are stored.
C15_Witness ==
    /\ resp.op = "signup" /\ resp.status = 200 /\ resp.mail = "failed"
    /\ \E u \in SelectByEmail(resp.arg) :
          /\ users[u].email_verification_token \in Tokens
          /\ \E i \in DOMAIN sessions : sessions[i].user_id = u

\* C16: a request that ends in a validation or lookup failure (400 of signup,
\* reset_password, verify_email and verify_otp, 401 and 403 of login, 404 of
\* resend_verification, send_otp and verify_otp, and every refusal of
\* get_current_user and logout) leaves the users and user_sessions tables as
\* they were.
C16_FailuresChangeNothing ==
    [][(/\ nreq' # nreq
        /\ \/ resp'.status \in {400, 401, 403, 404}
           \/ /\ resp'.op \in {"get_current_user", "logout"}
              /\ resp'.status # 200)
          => UNCHANGED <<users, sessions>>]_vars

\* A logout has been refused while a session row of the token's user is stored.
C16_Witness ==
    /\ resp.op = "logout" /\ resp.status = 401
    /\ resp.arg = "Bearer old:1"
    /\ \E i \in DOMAIN sessions : sessions[i].user_id = 1

\* C17: issuing a new token invalidates the earlier one of that kind: after a
\* forgot_password for a user whose row held a reset token, reset_password
\* with that earlier token is refused as invalid; after a resend_verification
\* for an unverified user, no row holds the earlier verification token, so
\* verify_email refuses it; a token that has been issued and is held by no
\* row is never held again; and of the values presented, at most one is held
\* as the reset token and at most one as the verification token of a user.
C17_NewTokenInvalidatesEarlier ==
    [][users' # users =>
          /\ \A u \in UserIds, t \in Tokens :
                (/\ resp'.op = "forgot_password"
                 /\ nreq' # nreq
                 /\ resp'.arg = users[u].email
                 /\ users[u].password_reset_token = t)
                   => reset_password_check(t)' = <<400, "Invalid reset token">>
          /\ \A u \in UserIds, t \in Tokens :
                (/\ resp'.op = "resend_verification"
                 /\ nreq' # nreq
                 /\ resp'.arg = users[u].email
                 /\ ~users[u].is_verified
                 /\ users[u].email_verification_token = t)
                   => \A v \in DOMAIN users' :
                         users'[v].email_verification_token # t
          /\ \A i \in 1..ntok :
                /\ SelectByResetToken(TokenSeq[i]) = {} =>
                      \A v \in DOMAIN users' :
                         users'[v].password_reset_token # TokenSeq[i]
                /\ SelectByVerificationToken(TokenSeq[i]) = {} =>
                      \A v \in DOMAIN users' :
                         users'[v].email_verification_token # TokenSeq[i]
          /\ \A v \in DOMAIN users' :
                /\ Cardinality({t \in Presented :
                                   users'[v].password_reset_token = t}) <= 1
                /\ Cardinality({t \in Presented :
                                   users'[v].email_verification_token = t}) <= 1]_vars

\* The only user asked for a second reset token, and reset_password with the
\* first one has been refused while the second one is held.
C17_Witness ==
    /\ resp = Response("reset_password", TokenSeq[1], 400, "Invalid reset token")
    /\ Len(users) = 1
    /\ users[1].password_reset_token = TokenSeq[2]
    /\ users[1].email_verification_token = NULL
    /\ ~users[1].is_verified

\* C18: when reset_password(T, p) answers 200, the row that held T has its
\* reset token and expiry cleared; if the user is active, a login with the
\* user's email and p now succeeds, and a login with a password that was the
\* user's password before and differs from p is refused with 401.
C18_ResetSetsThePassword ==
    [][\A t \in Tokens, p \in Passwords :
          (/\ resp'.op = "reset_password"
           /\ resp'.status = 200
           /\ reset_password(t, p)) =>
             \A u \in SelectByResetToken(t) :
                /\ users'[u].password_reset_token = NULL
                /\ users'[u].password_reset_expires = NULL_TS
                /\ users[u].is_active =>
                      login_check(users[u].email, p)' = <<200, "">>
                /\ \A q \in Passwords \ {p} :
                      verify_password(q, users[u].password_hash) =>
                         login_check(users[u].email, q)'
                            = <<401, "Invalid email or password">>]_vars

\* The only user, whose password was pw1, has logged in with pw2 after a
\* reset_password (the row was never verified, so the accepted value was a
\* reset token).
C18_Witness ==
    /\ resp.op = "login" /\ resp.status = 200
    /\ Len(users) = 1
    /\ ~users[1].is_verified
    /\ verify_password("pw2", users[1].password_hash)
    /\ \E t \in Tokens : uses[t] >= 1

\* C19: every login and every signup that answers 200 inserts exactly one new
\* session row, for the user of the request, and leaves the session rows that
\* existed before as they were.
C19_SuccessInsertsOneSession ==
    [][(/\ nreq' # nreq
        /\ resp'.op \in {"login", "signup"}
        /\ resp'.status = 200) =>
          /\ Len(sessions') = Len(sessions) + 1
          /\ SubSeq(sessions', 1, Len(sessions)) = sessions
          /\ \E u \in DOMAIN users' :
                /\ users'[u].email = resp'.arg
                /\ sessions'[Len(sessions')].user_id = u
          /\ \A i \in DOMAIN sessions :
                sessions[i].session_token
                   # sessions'[Len(sessions')].session_token]_vars

\* A user who already had a session row has logged in again and holds two.
C19_Witness ==
    /\ resp.op = "login" /\ resp.status = 200
    /\ Len(sessions) = 2
    /\ sessions[1].user_id = sessions[2].user_id
    /\ sessions[1].session_token # sessions[2].session_token

\* C20: the user payload in the 200 response of signup, login and
\* get_current_user is a payload of that user and never has a password_hash
\* field.
C20_NoPasswordHashInPayload ==
    (resp.op \in {"signup", "login", "get_current_user"} /\ resp.status = 200)
       => /\ "password_hash" \notin DOMAIN resp.user
          /\ {"user_id", "email"} \subseteq DOMAIN resp.user
          /\ resp.user.user_id \in UserIds

\* A login has answered 200 with the payload of a user whose row holds a
\* password hash.
C20_Witness ==
    /\ resp.op = "login" /\ resp.status = 200
    /\ resp.user.user_id \in UserIds
    /\ users[resp.user.user_id].email = resp.user.email
    /\ verify_password("pw1", users[resp.user.user_id].password_hash)

\* C21: resend_verification answers 404 for an email no user holds; for a
\* verified user it answers 200 'Email already verified', changes no stored
\* state and sends no email; for an unverified user it stores a verification
\* token that was never issued before, sends the verification email and
\* answers 200.
C21_ResendVerificationOutcomes ==
    [][(resp'.op = "resend_verification" /\ nreq' # nreq) =>
          IF SelectByEmail(resp'.arg) = {}
            THEN /\ resp' = Response("resend_verification", resp'.arg, 404,
                                     "User not found")
                 /\ UNCHANGED <<users, sessions>>
            ELSE \A u \in SelectByEmail(resp'.arg) :
                    IF users[u].is_verified
                      THEN /\ resp' = Response("resend_verification", resp'.arg,
                                               200, "Email already verified")
                           /\ resp'.mail = "none"
                           /\ UNCHANGED <<users, sessions>>
                      ELSE /\ resp'.status = 200
                           /\ resp'.detail = "Verification email sent successfully"
                           /\ resp'.mail \in {"sent", "failed"}
                           /\ users'[u].email_verification_token = TokenSeq[ntok + 1]
                           /\ users'[u].email_verification_token
                                 # users[u].email_verification_token
                           /\ \A v \in UserIds :
                                 /\ users[v].email_verification_token
                                       # TokenSeq[ntok + 1]
                                 /\ users[v].password_reset_token
                                       # TokenSeq[ntok + 1]
                           /\ users' = [users EXCEPT
                                          ![u].email_verification_token
                                             = TokenSeq[ntok + 1]]]_vars

\* A verified user has asked for the verification email again.
C21_Witness ==
    /\ resp = Response("resend_verification", resp.arg, 200,
                       "Email already verified")
    /\ \E u \in SelectByEmail(resp.arg) :
          /\ users[u].is_verified
          /\ users[u].email_verification_token = NULL

\* C22: a reset token that forgot_password issued at time t and that the row
\* still holds (not consumed, not replaced) is accepted by every
\* reset_password made up to t + 1 hour, whatever send_otp, verify_otp,
\* verify_email or resend_verification did for that user in between.
C22_ResetLifecycleIndependent ==
    [][resp'.op = "reset_password" =>
          \A t \in {resp'.arg} \cap Tokens, p \in Passwords : \A u \in UserIds :
             (/\ users[u].password_reset_token = t
              /\ issued[u].reset_at # NULL_TS
              /\ now <= issued[u].reset_at + RESET_EXPIRE
              /\ reset_password(t, p))
                => resp' = Response("reset_password", t, 200,
                                    "Password reset successful")]_vars

\* C23: get_current_user answers 200 exactly when the header carries a token
\* with a valid signature that has not expired and the token's user exists
\* and is active, whatever the user_sessions table holds: with a still
\* unexpired token it goes on answering 200 after logout has deleted every
\* session of the user.  It leaves the table as it is.
C23_GetCurrentUserIgnoresSessions ==
    [][(resp'.op = "get_current_user" /\ nreq' # nreq) =>
          \A authorization \in Headers :
             authorization.label = resp'.arg =>
                LET token == authorization.token IN
                /\ resp'.status = 200 <=>
                      /\ authorization.present
                      /\ authorization.scheme = "Bearer"
                      /\ token.wellformed
                      /\ token.key = SECRET_KEY
                      /\ token.exp > now
                      /\ token.user_id \in UserIds
                      /\ users[token.user_id].is_active
                /\ resp'.status = 200 =>
                      resp'.user = Columns(token.user_id, users[token.user_id],
                                           ME_SELECT)
                /\ UNCHANGED <<users, sessions>>]_vars

\* User 1 has logged in, the session row is gone again (only logout deletes
\* rows), and get_current_user with the user's token has answered 200.
C23_Witness ==
    /\ resp.op = "get_current_user" /\ resp.status = 200
    /\ resp.arg = "Bearer jwt:1"
    /\ 1 \in UserIds
    /\ users[1].last_login # NULL_TS
    /\ \A i \in DOMAIN sessions : sessions[i].user_id # 1

\* C24: for an existing user and any presented code, verify_otp ends in one
\* of its typed outcomes: 200 'OTP verified successfully', 400 'Invalid OTP'
\* or 400 'OTP has expired'; when the presented value equals the stored
\* email_verification_token and no expiry is stored, the request is refused
\* with one of the two 400 outcomes; it never ends in an internal error.
C24_VerifyOtpTypedOutcomes ==
    [][(/\ resp'.op = "verify_otp"
        /\ nreq' # nreq
        /\ SelectByEmail(resp'.arg) # {}) =>
          /\ <<resp'.status, resp'.detail>> \in
                {<<200, "OTP verified successfully">>,
                 <<400, "Invalid OTP">>,
                 <<400, "OTP has expired">>}
          /\ \A u \in SelectByEmail(resp'.arg), o \in Presented :
                (/\ users[u].email_verification_token = o
                 /\ users[u].password_reset_expires = NULL_TS
                 /\ verify_otp(resp'.arg, o))
                   => resp'.status = 400]_vars

====
